---- MODULE Spec2Model ----
(***************************************************************************)
(* Model of the bmin520 patient / knowledge-graph pipeline.                *)
(*                                                                         *)
(*   nodeEmbedding.py  NodeEmbeddingPredictor and its main(): load, node   *)
(*                     mapping, edge index, Node2Vec training, feature and *)
(*                     label generation, classifier training.              *)
(*   filter.py         the module-level loading script.                    *)
(*   utils.py          filter_pmbb_by_icd10 and filter_dataset_by_ids.     *)
(*                                                                         *)
(* An attribute of the predictor that has not been assigned yet is absent  *)
(* from attrs; its variable then holds an empty value of its own type.     *)
(***************************************************************************)
EXTENDS Integers, Sequences, FiniteSets, TLC

(***************************************************************************)
(* Bounds of the model.                                                    *)
(***************************************************************************)
MaxNodes == 3
MaxEdges == 2
MaxPatients == 2
\* Scaled-down stand-in for embedding_dim (128 in the source).
EmbDim == 1
\* Number of distinct outcomes of the (unseeded) stochastic training, minus 1.
MaxSeed == 1
\* The files glob finds in pmbb_dir besides the ICD-10 matrix.
MaxFiles == 3
\* The nodes of filter.py's graph, and the code columns of its ICD-10 matrix.
MaxCodes == 2
\* The rows of the ICD-10 matrix filter_pmbb_by_icd10 reads.
MaxRows == 2
\* The vertices of the graph build_graph builds.
MaxVertices == 3

(***************************************************************************)
(* Generic helpers.                                                        *)
(***************************************************************************)
Range(s) == {s[i] : i \in 1..Len(s)}

SeqsUpTo(S, n) == UNION {[1..k -> S] : k \in 0..n}

\* The elements of s in order of first occurrence, each once.
RECURSIVE Uniq(_)
Uniq(s) ==
    IF s = <<>> THEN <<>>
    ELSE LET r == Uniq(SubSeq(s, 1, Len(s) - 1))
         IN IF s[Len(s)] \in Range(r) THEN r ELSE Append(r, s[Len(s)])

\* The elements of s that satisfy the membership in S, order kept.
RECURSIVE Keep(_, _)
Keep(s, S) ==
    IF s = <<>> THEN <<>>
    ELSE IF Head(s) \in S THEN <<Head(s)>> \o Keep(Tail(s), S)
         ELSE Keep(Tail(s), S)

(***************************************************************************)
(* Input values.                                                           *)
(***************************************************************************)
\* Node keys are opaque strings (GML labels); patient ids are node keys too.
NodeNames == <<"a", "b", "c", "d", "e", "f">>
\* An id that is never a node of the graph.
Ghost == "zz"

GeneType == "gene/protein"
TypeVals == {"gene/protein", "disease"}

\* A cell of the variant matrix: a number, or NaN for a missing value.
Num(n) == [nan |-> FALSE, v |-> n]
NaN == [nan |-> TRUE, v |-> 0]
CellSeq == <<Num(1), Num(0), NaN, Num(-1), Num(2)>>

\* IEEE / numpy comparison  c != 0 : NaN is unequal to everything.
NotEqualZero(c) == c.nan \/ c.v # 0

(***************************************************************************)
(* State.                                                                  *)
(***************************************************************************)
VARIABLES
    pc,                 \* the statement of main() that runs next
    ran,                \* the stages main() has entered so far, in order
    error,              \* the exception that ended the run, "" if none
    attrs,              \* the attributes assigned on the predictor so far
    files,              \* the files the run has written
    kg,                 \* self.kg: nodes (in file order), node types, edges
    filtered_icd_df,    \* self.filtered_icd_df: its PMBB_ID column
    variant_df,         \* self.variant_df: index, columns, cells
    node_list,          \* self.node_list
    node_to_id,         \* self.node_to_id
    id_to_node,         \* self.id_to_node
    edge_index_tensor,  \* self.edge_index_tensor: <<sources, targets>>
    embeddings,         \* self.embeddings: row id -> vector
    features,           \* self.features
    labels,             \* self.labels
    prog,               \* the entry point this process runs
    fstatus,            \* filter.py: the state of each input file on disk
    fpc,                \* filter.py: the statement that runs next
    flog,               \* filter.py: the records written through logging
    fout,               \* filter.py: the files written
    kg_nodes,           \* filter.py: kg.nodes(data=True), in file order
    icd_columns,        \* filter.py: icd_df.columns as read_csv returns them
    written_columns,    \* filter.py: the header of filtered_icd10_kg.csv
    matrix,             \* utils: the state of the ICD-10 matrix file
    dataset,            \* utils: the state of filter_dataset_by_ids' dataset file
    dir,                \* utils: the other files of pmbb_dir, as glob lists them
    upc,                \* utils: the statement of the function that runs next
    uidx,               \* utils: the loop position in the glob list
    icd10_args,         \* filter_pmbb_by_icd10: icd10_code, num_patients, exclude_prefix
    icd10_df,           \* filter_pmbb_by_icd10: the matrix as read_csv returns it
    sampled_ids,        \* filter_pmbb_by_icd10: the ids written to sampled_patient_ids.csv
    graph_args,         \* utils: nodes['node_index'], the edges, start_nodes, max_distance
    ig_graph,           \* utils: the igraph graph build_graph returned
    nodes_to_keep,      \* utils: what get_nodes_within_distance returned
    uevents,            \* utils: the reads that failed and the files written, in order
    gpc                 \* utils: the graph function that runs next

pvars == <<pc, ran, error, attrs, files, kg, filtered_icd_df, variant_df,
           node_list, node_to_id, id_to_node, edge_index_tensor, embeddings,
           features, labels>>

fvars == <<fstatus, fpc, flog, fout, kg_nodes, icd_columns, written_columns>>

uvars == <<matrix, dataset, dir, upc, uidx, uevents, icd10_args, icd10_df, sampled_ids>>

gvars == <<graph_args, ig_graph, nodes_to_keep, gpc>>

\* A step of nodeEmbedding.py, of filter.py, of a utils.py function: the
\* process runs that entry point and the other programs' state stays put.
InPipeline == prog = "nodeEmbedding.py" /\ UNCHANGED <<prog, fvars, uvars, gvars>>

InFilter == prog = "filter.py" /\ UNCHANGED <<prog, pvars, uvars, gvars>>

InUtils(function) == prog = function /\ UNCHANGED <<prog, pvars, fvars, gvars>>

InGraph == prog = "get_nodes_within_distance" /\ UNCHANGED <<prog, pvars, fvars, uvars>>

(***************************************************************************)
(* The inputs the constructor reads.                                       *)
(***************************************************************************)
Nodes(N) == SubSeq(NodeNames, 1, N)

Graph(N, ty, es) == [nodes |-> Nodes(N), type |-> ty, edges |-> es]

\* The position of node n in the sequence s (n occurs in s).
Pos(s, n) == CHOOSE i \in 1..Len(s) : s[i] = n

\* generate_features_and_labels: the nodes of type 'gene/protein', in
\* the order kg.nodes(data=True) yields them.
gene_protein_nodes(g) == Keep(g.nodes, {n \in Range(g.nodes) : g.type[n] = GeneType})

\* The columns of the variant matrices: the genes of the graph, in node order.
GeneColumns(g) == Keep(g.nodes, {n \in Range(g.nodes) : g.type[n] = GeneType})

\* A variant matrix whose cells run through CellSeq from offset s on.
PatternCell(genes, s) ==
    [rc \in {<<r, c>> : r \in 1..MaxPatients + 1, c \in Range(genes)} |->
        CellSeq[(((rc[1] - 1) * Len(genes) + (Pos(genes, rc[2]) - 1) + s)
                 % Len(CellSeq)) + 1]]

VariantMatrix(index, cols, genes, s) ==
    [index |-> index, columns |-> cols,
     cell |-> [rc \in (1..Len(index)) \X cols |-> PatternCell(genes, s)[rc]]]

\* The variant matrices tried with graph g and patient ids pids: one row per
\* distinct patient and one column per gene with every cell pattern, and the
\* matrices that lack a row, repeat a row, or lack a column.
Variants(g, pids) ==
    LET U == Uniq(pids)
        genes == GeneColumns(g)
        G == Range(genes)
    IN  {VariantMatrix(U, G, genes, s) : s \in 0..Len(CellSeq) - 1}
        \cup (IF U = <<>> THEN {}
              ELSE {VariantMatrix(SubSeq(U, 1, Len(U) - 1), G, genes, 0),
                    VariantMatrix(Append(U, U[1]), G, genes, 0)})
        \cup (IF genes = <<>> THEN {}
              ELSE {VariantMatrix(U, G \ {genes[Len(genes)]}, genes, 0)})

\* The first node is a disease node, the others are genes.
DefaultType(N) == [n \in Range(Nodes(N)) |-> IF n = NodeNames[1] THEN "disease" ELSE GeneType]

\* A cycle through all N nodes (a self-loop when N = 1).
Ring(N) == [i \in 1..N |-> <<NodeNames[i], NodeNames[(i % N) + 1]>>]

\* The graphs with every edge list (loops and parallel edges included);
\* they come with one patient, the first node.
EdgeGraphs ==
    UNION {{Graph(N, DefaultType(N), es) :
                es \in SeqsUpTo(Range(Nodes(N)) \X Range(Nodes(N)), MaxEdges)}
           : N \in 0..MaxNodes}

EdgeGraphPatients(g) == IF g.nodes = <<>> THEN <<>> ELSE <<g.nodes[1]>>

\* The connected graphs with every typing of the nodes; they come with every
\* list of patient ids (repeated ids and an id that is no node included)
\* and the variant matrices above.
TypedGraphs ==
    UNION {{Graph(N, ty, Ring(N)) : ty \in [Range(Nodes(N)) -> TypeVals]}
           : N \in 1..MaxNodes}

PatientLists(g) == SeqsUpTo(Range(g.nodes) \cup {Ghost}, MaxPatients)

InputFiles == {"kg", "icd_matrix", "variant_matrix"}

(***************************************************************************)
(* main(): the order of the stages.                                        *)
(***************************************************************************)
MainOrder ==
    <<"__init__", "create_node_mapping", "prepare_edge_index",
      "train_node_embeddings", "generate_features_and_labels",
      "train_binary_classifier">>

\* Mutant of NextStage: main() forgets to call create_node_mapping.
MutNextStageSkipMapping(s) ==
    IF s = "__init__" THEN "prepare_edge_index"
    ELSE IF Pos(MainOrder, s) = Len(MainOrder) THEN "done"
    ELSE MainOrder[Pos(MainOrder, s) + 1]

\* The statement main() runs after stage s has returned.
NextStage(s) ==
    IF Pos(MainOrder, s) = Len(MainOrder) THEN "done"
    ELSE MainOrder[Pos(MainOrder, s) + 1]

\* Mutant of Raise: main() catches the exception of a stage and goes on.
MutRaiseCaught(stage, exc) ==
    /\ pc' = NextStage(stage)
    /\ ran' = Append(ran, stage)
    /\ error' = exc

\* A stage raised: the exception leaves main() and the process ends.
Raise(stage, exc) ==
    /\ pc' = "failed"
    /\ ran' = Append(ran, stage)
    /\ error' = exc

\* A stage returned normally.
Return(stage) ==
    /\ pc' = NextStage(stage)
    /\ ran' = Append(ran, stage)
    /\ error' = error

(***************************************************************************)
(* __init__: the three loads.                                              *)
(***************************************************************************)
Loaded(g, pids, v) ==
    /\ kg' = g
    /\ filtered_icd_df' = pids
    /\ variant_df' = v
    /\ attrs' = attrs \cup {"kg", "filtered_icd_df", "variant_df"}
    /\ Return("__init__")

NodeEmbeddingPredictor_init ==
    /\ InPipeline
    /\ pc = "__init__"
    /\ \/ \E g \in EdgeGraphs :
            Loaded(g, EdgeGraphPatients(g),
                   VariantMatrix(EdgeGraphPatients(g), Range(GeneColumns(g)),
                                 GeneColumns(g), 0))
       \/ \E g \in TypedGraphs : \E pids \in PatientLists(g) :
            \E v \in Variants(g, pids) : Loaded(g, pids, v)
       \/ \E f \in InputFiles :
            \* read_gml / read_csv raised: no predictor is constructed.
            /\ Raise("__init__", "load " \o f)
            /\ UNCHANGED <<kg, filtered_icd_df, variant_df, attrs>>
    /\ UNCHANGED <<files, node_list, node_to_id, id_to_node, edge_index_tensor,
                   embeddings, features, labels>>

(***************************************************************************)
(* create_node_mapping                                                     *)
(***************************************************************************)
\* Mutant of NodeToId: the enumeration misses the last node.
MutNodeToIdDropLast(nl) ==
    [n \in {nl[i] : i \in 1..Len(nl) - 1} |-> Pos(nl, n) - 1]

\* Mutant of NodeToId: the enumeration starts at 1.
MutNodeToIdFromOne(nl) == [n \in Range(nl) |-> Pos(nl, n)]

\* {node: idx for idx, node in enumerate(node_list)}: a later occurrence of
\* a key overwrites an earlier one.
NodeToId(nl) ==
    [n \in Range(nl) |->
        CHOOSE i \in 0..Len(nl) - 1 :
            /\ nl[i + 1] = n
            /\ \A j \in 0..Len(nl) - 1 : nl[j + 1] = n => j <= i]

\* {idx: node for node, idx in node_to_id.items()}: items() runs in the
\* order the keys were first inserted, and a later item overwrites.
IdToNode(nl, m) ==
    LET keys == Keep(Uniq(nl), DOMAIN m)
    IN  [i \in {m[n] : n \in DOMAIN m} |->
            keys[CHOOSE k \in 1..Len(keys) :
                    /\ m[keys[k]] = i
                    /\ \A l \in 1..Len(keys) : m[keys[l]] = i => l <= k]]

create_node_mapping ==
    /\ InPipeline
    /\ pc = "create_node_mapping"
    /\ node_list' = kg.nodes
    /\ node_to_id' = NodeToId(node_list')
    /\ id_to_node' = IdToNode(node_list', node_to_id')
    /\ attrs' = attrs \cup {"node_list", "node_to_id", "id_to_node"}
    /\ Return("create_node_mapping")
    /\ UNCHANGED <<files, kg, filtered_icd_df, variant_df, edge_index_tensor,
                   embeddings, features, labels>>

(***************************************************************************)
(* prepare_edge_index                                                      *)
(***************************************************************************)
\* Mutant of EdgeRows: only the forward direction is appended.
MutEdgeRowsOneWay(m, edge) == <<<<m[edge[1]], m[edge[2]]>>>>

\* The loop body: the two rows appended for one edge.
EdgeRows(m, edge) ==
    <<<<m[edge[1]], m[edge[2]]>>, <<m[edge[2]], m[edge[1]]>>>>

\* The list edge_index after the loop over kg.edges().
RECURSIVE EdgeIndexList(_, _)
EdgeIndexList(m, edges) ==
    IF edges = <<>> THEN <<>>
    ELSE EdgeRows(m, Head(edges)) \o EdgeIndexList(m, Tail(edges))

\* torch.tensor(edge_index).t(): the rows become columns.
Transpose(rows) ==
    <<[k \in 1..Len(rows) |-> rows[k][1]], [k \in 1..Len(rows) |-> rows[k][2]]>>

prepare_edge_index ==
    /\ InPipeline
    /\ pc = "prepare_edge_index"
    /\ IF \E k \in 1..Len(kg.edges) :
            kg.edges[k][1] \notin DOMAIN node_to_id \/ kg.edges[k][2] \notin DOMAIN node_to_id
       THEN /\ Raise("prepare_edge_index", "KeyError")
            /\ UNCHANGED <<edge_index_tensor, attrs>>
       ELSE /\ edge_index_tensor' = Transpose(EdgeIndexList(node_to_id, kg.edges))
            /\ attrs' = attrs \cup {"edge_index_tensor"}
            /\ Return("prepare_edge_index")
    /\ UNCHANGED <<files, kg, filtered_icd_df, variant_df, node_list, node_to_id,
                   id_to_node, embeddings, features, labels>>

(***************************************************************************)
(* train_node_embeddings                                                   *)
(***************************************************************************)
SetMax(S) == CHOOSE x \in S : \A y \in S : y <= x

\* Node2Vec is given no num_nodes: it sizes the embedding table from the
\* edge index, as the largest id in it plus one (0 for an empty index).
NumEmbeddingRows(ei) ==
    IF Len(ei[1]) = 0 THEN 0
    ELSE SetMax(Range(ei[1]) \cup Range(ei[2])) + 1

\* One outcome of the unseeded training: a table of rows x EmbDim numbers,
\* no two entries of one table equal.
TrainedTable(rows, seed) ==
    [r \in 0..rows - 1 |-> [d \in 1..EmbDim |-> (seed * 100) + (r * 10) + d]]

train_node_embeddings ==
    /\ InPipeline
    /\ pc = "train_node_embeddings"
    /\ \/ \E seed \in 0..MaxSeed :
            /\ embeddings' = TrainedTable(NumEmbeddingRows(edge_index_tensor), seed)
            /\ attrs' = attrs \cup {"embeddings"}
            /\ files' = files \cup {"node_embeddings.npy"}
            /\ Return("train_node_embeddings")
       \/ \* an empty edge list gives a tensor Node2Vec may reject
          /\ Len(edge_index_tensor[1]) = 0
          /\ Raise("train_node_embeddings", "Node2Vec")
          /\ UNCHANGED <<embeddings, attrs, files>>
    /\ UNCHANGED <<kg, filtered_icd_df, variant_df, node_list, node_to_id,
                   id_to_node, edge_index_tensor, features, labels>>

(***************************************************************************)
(* generate_features_and_labels                                            *)
(***************************************************************************)
\* The rows of variant_df whose index label is pid.
LocRows(pid) == {r \in 1..Len(variant_df.index) : variant_df.index[r] = pid}

\* variant_df.loc[patient_id, gene] when exactly one row carries the label.
Loc(pid, gene) == variant_df.cell[<<CHOOSE r \in LocRows(pid) : TRUE, gene>>]

\* Mutant of ConcatFeature: the two embeddings in the wrong order.
MutConcatGeneFirst(p_idx, g_idx) == embeddings[g_idx] \o embeddings[p_idx]

\* np.concatenate([self.embeddings[p_idx], self.embeddings[g_idx]])
ConcatFeature(p_idx, g_idx) == embeddings[p_idx] \o embeddings[g_idx]

\* Mutant of LabelOf: tests  > 0  instead of  != 0.
MutLabelPositive(patient_id, gene) ==
    IF ~Loc(patient_id, gene).nan /\ Loc(patient_id, gene).v > 0 THEN 1 ELSE 0

\* Mutant of LabelOf: the cell's value itself is taken as the label.
MutLabelRawValue(patient_id, gene) ==
    IF Loc(patient_id, gene).nan THEN 0 ELSE Loc(patient_id, gene).v

\* 1 if self.variant_df.loc[patient_id, gene] != 0 else 0
LabelOf(patient_id, gene) == IF NotEqualZero(Loc(patient_id, gene)) THEN 1 ELSE 0

\* The exception the loop body raises for one pair, "" if none.
PairError(patient_id, gene) ==
    IF node_to_id[patient_id] \notin DOMAIN embeddings
       \/ node_to_id[gene] \notin DOMAIN embeddings THEN "IndexError"
    ELSE IF LocRows(patient_id) = {} \/ gene \notin variant_df.columns THEN "KeyError"
    ELSE IF Cardinality(LocRows(patient_id)) > 1 THEN "ValueError"
    ELSE ""

\* Mutant of GeneLoop: the inner loop stops one gene early.
MutGeneLoopDropLast(patient_id, genes) ==
    [j \in 1..Len(genes) - 1 |->
        [feature |-> ConcatFeature(node_to_id[patient_id], node_to_id[genes[j]]),
         label |-> LabelOf(patient_id, genes[j])]]

\* The inner loop: one record per gene, in the order of gene_protein_nodes.
GeneLoop(patient_id, genes) ==
    [j \in 1..Len(genes) |->
        [feature |-> ConcatFeature(node_to_id[patient_id], node_to_id[genes[j]]),
         label |-> LabelOf(patient_id, genes[j])]]

\* Mutant of PatientLoop: the loops nested the other way round, gene by gene.
MutGeneMajorLoop(patient_ids, genes) ==
    [k \in 1..Len(patient_ids) * Len(genes) |->
        LET patient_id == patient_ids[((k - 1) % Len(patient_ids)) + 1]
            gene == genes[((k - 1) \div Len(patient_ids)) + 1]
        IN  [feature |-> ConcatFeature(node_to_id[patient_id], node_to_id[gene]),
             label |-> LabelOf(patient_id, gene)]]

\* The outer loop: the records of each patient appended in turn.
RECURSIVE PatientLoop(_, _)
PatientLoop(patient_ids, genes) ==
    IF patient_ids = <<>> THEN <<>>
    ELSE GeneLoop(Head(patient_ids), genes) \o PatientLoop(Tail(patient_ids), genes)

\* The pairs the loops visit, in order.
RECURSIVE VisitOrder(_, _)
VisitOrder(patient_ids, genes) ==
    IF patient_ids = <<>> THEN <<>>
    ELSE [j \in 1..Len(genes) |-> <<Head(patient_ids), genes[j]>>]
         \o VisitOrder(Tail(patient_ids), genes)

\* The exception generate_features_and_labels ends with, "" if it returns.
GenerateError(patient_ids, genes) ==
    IF \E i \in 1..Len(patient_ids) : patient_ids[i] \notin DOMAIN node_to_id
       THEN "KeyError"
    ELSE IF \E j \in 1..Len(genes) : genes[j] \notin DOMAIN node_to_id
       THEN "KeyError"
    ELSE LET visit == VisitOrder(patient_ids, genes)
             bad == {k \in 1..Len(visit) : PairError(visit[k][1], visit[k][2]) # ""}
         IN  IF bad = {} THEN ""
             ELSE LET first == CHOOSE k \in bad : \A l \in bad : k <= l
                  IN  PairError(visit[first][1], visit[first][2])

generate_features_and_labels ==
    /\ InPipeline
    /\ pc = "generate_features_and_labels"
    /\ LET patient_ids == filtered_icd_df
           genes == gene_protein_nodes(kg)
           exc == GenerateError(patient_ids, genes)
       IN  IF exc # ""
           THEN /\ Raise("generate_features_and_labels", exc)
                /\ UNCHANGED <<features, labels, attrs, files>>
           ELSE LET records == PatientLoop(patient_ids, genes)
                IN  /\ features' = [k \in 1..Len(records) |-> records[k].feature]
                    /\ labels' = [k \in 1..Len(records) |-> records[k].label]
                    /\ attrs' = attrs \cup {"features", "labels"}
                    /\ files' = files \cup {"features.npy", "labels.npy"}
                    /\ Return("generate_features_and_labels")
    /\ UNCHANGED <<kg, filtered_icd_df, variant_df, node_list, node_to_id,
                   id_to_node, edge_index_tensor, embeddings>>

(***************************************************************************)
(* train_binary_classifier                                                 *)
(***************************************************************************)
\* train_test_split(test_size=0.2): ceil(0.2 * n) test samples.
NumTest(n) == (n + 4) \div 5

CountOf(ls, c) == Cardinality({k \in 1..Len(ls) : ls[k] = c})

\* Some split leaves both classes in y_train: the fit can succeed.
SplitCanFit(ls) ==
    /\ Len(ls) - NumTest(Len(ls)) >= 2
    /\ CountOf(ls, 0) >= 1
    /\ CountOf(ls, 1) >= 1

\* The split is empty-handed (no sample, or none left to train on), or some
\* split leaves a single class in y_train: ValueError.
SplitCanRaise(ls) ==
    \/ Len(ls) < 2
    \/ CountOf(ls, 0) >= Len(ls) - NumTest(Len(ls))
    \/ CountOf(ls, 1) >= Len(ls) - NumTest(Len(ls))

train_binary_classifier ==
    /\ InPipeline
    /\ pc = "train_binary_classifier"
    /\ \/ /\ SplitCanFit(labels)
          /\ files' = files \cup {"logistic_regression_model.pkl"}
          /\ Return("train_binary_classifier")
       \/ /\ SplitCanRaise(labels)
          /\ Raise("train_binary_classifier", "ValueError")
          /\ UNCHANGED files
    /\ UNCHANGED <<attrs, kg, filtered_icd_df, variant_df, node_list, node_to_id,
                   id_to_node, edge_index_tensor, embeddings, features, labels>>

(***************************************************************************)
(* The pipeline.                                                           *)
(***************************************************************************)
PipelineInit ==
    /\ pc = "__init__"
    /\ ran = <<>>
    /\ error = ""
    /\ attrs = {}
    /\ files = {}
    /\ kg = Graph(0, <<>>, <<>>)
    /\ filtered_icd_df = <<>>
    /\ variant_df = VariantMatrix(<<>>, {}, <<>>, 0)
    /\ node_list = <<>>
    /\ node_to_id = <<>>
    /\ id_to_node = <<>>
    /\ edge_index_tensor = <<<<>>, <<>>>>
    /\ embeddings = <<>>
    /\ features = <<>>
    /\ labels = <<>>

PipelineNext ==
    \/ NodeEmbeddingPredictor_init
    \/ create_node_mapping
    \/ prepare_edge_index
    \/ train_node_embeddings
    \/ generate_features_and_labels
    \/ train_binary_classifier

(***************************************************************************)
(* filter.py: the module-level script.                                     *)
(***************************************************************************)
\* A file on disk: readable, absent, or not parseable.
FileStatus == {"ok", "missing", "malformed"}

\* The inputs of filter.py in the order it loads them.
FilterLoads == <<"kg", "icd_matrix", "variant_matrix", "sampled_ids">>

LogRecord(level, about) == [level |-> level, about |-> about]

\* Mutant of FilterAfterLoad: the except block logs and forgets `raise e`.
MutFilterAfterLoadSwallow(status, next) == next

\* Where the script goes after a load: on, or out through the exception.
FilterAfterLoad(status, next) == IF status = "ok" THEN next ELSE "raised"

\* Line 57: read_gml outside any try block; lines 58-71 log what was read.
filter_load_kg ==
    /\ InFilter
    /\ fpc = "kg"
    /\ fpc' = FilterAfterLoad(fstatus["kg"], "icd_matrix")
    /\ flog' = IF fstatus["kg"] = "ok" THEN Append(flog, LogRecord("INFO", "kg")) ELSE flog
    /\ UNCHANGED <<fstatus, fout, kg_nodes, icd_columns, written_columns>>

\* Lines 73-78, 80-87, 89-96: try: read_csv ... logging.info
\* except: logging.error; raise e.
FilterGuardedLoad(file, next) ==
    /\ InFilter
    /\ fpc = file
    /\ fpc' = FilterAfterLoad(fstatus[file], next)
    /\ flog' = Append(flog, LogRecord(IF fstatus[file] = "ok" THEN "INFO" ELSE "ERROR", file))
    /\ UNCHANGED <<fstatus, fout, kg_nodes, icd_columns, written_columns>>

filter_load_icd == FilterGuardedLoad("icd_matrix", "variant_matrix")

filter_load_variant == FilterGuardedLoad("variant_matrix", "sampled_ids")

filter_load_sampled_ids == FilterGuardedLoad("sampled_ids", "filter")

\* A name (a node label, a column header) is its sequence of characters.
PMBB_ID == <<"P", "M", "B", "B", "_", "I", "D">>

\* The names the graph's nodes and the matrix's code columns are drawn from.
CodeNames == << <<"E", "1">>, <<"E", ".", "1">>, <<"F", "2">>, <<"9", "1">> >>

\* str.isalpha on one character.
isalpha(c) == c \in {"B", "D", "E", "F", "I", "M", "P"}

\* name.replace('.', '')
RemovePeriods(name) == SelectSeq(name, LAMBDA c : c # ".")

\* Lines 65-68: the disease nodes whose name starts with a letter.
kg_icd10_codes(nodes) ==
    LET hit == SelectSeq(nodes, LAMBDA n : n.type = "disease" /\ isalpha(n.name[1]))
    IN [i \in 1..Len(hit) |-> hit[i].name]

\* Line 69.
kg_icd10_codes_clean(codes) == [i \in 1..Len(codes) |-> RemovePeriods(codes[i])]

\* Line 70: a dict comprehension; a later code overwrites an earlier one
\* that has the same cleaned form.
icd10_mapping(codes) ==
    [clean \in Range(kg_icd10_codes_clean(codes)) |->
        codes[CHOOSE i \in 1..Len(codes) :
                  /\ RemovePeriods(codes[i]) = clean
                  /\ \A j \in i + 1..Len(codes) : RemovePeriods(codes[j]) # clean]]

\* Line 99: icd_df.columns after the periods are removed.
CleanColumns(columns) == [i \in 1..Len(columns) |-> RemovePeriods(columns[i])]

\* Line 102: for each cleaned code that is a column, the code as the graph
\* spells it.
filtered_icd10_codes(codes, columns) ==
    LET present == SelectSeq(kg_icd10_codes_clean(codes), LAMBDA c : c \in Range(columns))
    IN [i \in 1..Len(present) |-> icd10_mapping(codes)[present[i]]]

\* Line 103, icd_df[wanted]: a label that is not a column is a KeyError.
SelectRaises(columns, wanted) == \E i \in 1..Len(wanted) : wanted[i] \notin Range(columns)

\* Line 103, icd_df[wanted]: the columns carrying each label, label by label.
RECURSIVE SelectColumns(_, _)
SelectColumns(columns, wanted) ==
    IF wanted = <<>> THEN <<>>
    ELSE SelectSeq(columns, LAMBDA c : c = Head(wanted)) \o SelectColumns(columns, Tail(wanted))

\* Lines 98-107: filter the columns, write the matrix, log it. The
\* KeyError of line 103 is not caught: the script ends with nothing written.
filter_write ==
    /\ InFilter
    /\ fpc = "filter"
    /\ LET columns == CleanColumns(icd_columns)
           wanted == <<PMBB_ID>> \o filtered_icd10_codes(kg_icd10_codes(kg_nodes), columns)
       IN IF SelectRaises(columns, wanted)
          THEN /\ fpc' = "failed"
               /\ UNCHANGED <<fout, flog, written_columns>>
          ELSE /\ fpc' = "done"
               /\ written_columns' = SelectColumns(columns, wanted)
               /\ fout' = fout \cup {"filtered_icd10_kg.csv"}
               /\ flog' = Append(flog, LogRecord("INFO", "saved"))
    /\ UNCHANGED <<fstatus, kg_nodes, icd_columns>>

FilterNext ==
    \/ filter_load_kg
    \/ filter_load_icd
    \/ filter_load_variant
    \/ filter_load_sampled_ids
    \/ filter_write

(***************************************************************************)
(* utils.py: filter_pmbb_by_icd10 and filter_dataset_by_ids.               *)
(***************************************************************************)
\* A file glob lists: tab-separated with a PMBB_ID column, tab-separated
\* without one, or not parseable.
ListedStatus == {"ok", "no_id", "unreadable"}

Event(kind, file) == [kind |-> kind, file |-> file]

\* Line 101, fillna(0), on one cell.
FillNa(c) == IF c.nan THEN Num(0) ELSE c

\* str.startswith
startswith(name, prefix) ==
    Len(prefix) <= Len(name) /\ SubSeq(name, 1, Len(prefix)) = prefix

\* Line 104.
icd10_columns(columns, exclude_prefix) ==
    SelectSeq(columns, LAMBDA col : col # PMBB_ID /\ ~startswith(col, exclude_prefix))

\* Mutant of GreaterThanZero: >= 0 instead of > 0.
MutGreaterOrEqualZero(c) == FillNa(c).v >= 0

\* Line 106, `> 0` on a cell of the frame after fillna(0).
GreaterThanZero(c) == FillNa(c).v > 0

\* Lines 105-108: the PMBB_ID (after fillna) of the rows whose cell in the
\* code's column is positive, each id once, in row order.
selected_patients(df, icd10_code, exclude_prefix) ==
    IF icd10_code \in Range(icd10_columns(df.columns, exclude_prefix))
    THEN LET hit == SelectSeq(df.rows, LAMBDA row : GreaterThanZero(row.value))
         IN Uniq([i \in 1..Len(hit) |-> FillNa(hit[i].id)])
    ELSE <<>>

\* random.sample(population, k): k elements at k different positions, in
\* any order.
RandomSamples(population, k) ==
    {[i \in 1..k |-> population[at[i]]] :
        at \in {q \in [1..k -> 1..Len(population)] : \A i \in 1..k : \A j \in 1..k : q[i] = q[j] => i = j}}

\* Lines 110-114: what sampled_ids can be.
Sampled(selected, num_patients) ==
    IF Len(selected) < num_patients THEN {selected} ELSE RandomSamples(selected, num_patients)

\* Lines 98-117: the ICD-10 matrix is read outside any try block; then the
\* sample is drawn and written.
filter_pmbb_by_icd10_sample ==
    /\ InUtils("filter_pmbb_by_icd10")
    /\ upc = "read_matrix"
    /\ IF matrix = "ok"
       THEN /\ sampled_ids' \in Sampled(selected_patients(icd10_df, icd10_args.icd10_code,
                                                             icd10_args.exclude_prefix),
                                         icd10_args.num_patients)
            /\ upc' = "loop"
            /\ uevents' = Append(uevents, Event("write", "sampled_patient_ids.csv"))
       ELSE /\ upc' = "raised"
            /\ uevents' = Append(uevents, Event("error", "matrix"))
            /\ UNCHANGED sampled_ids
    /\ UNCHANGED <<matrix, dataset, dir, uidx, icd10_args, icd10_df>>

\* The files of pmbb_dir: the matrix that was just read, then the others.
GlobFiles == <<"ok">> \o dir

\* Lines 126-136, one pass of the loop body for a listed file: a readable
\* file with a PMBB_ID column is written, a failed read is printed.
LoopEvents(status, file) ==
    IF status = "ok" THEN <<Event("write", file)>>
    ELSE IF status = "unreadable" THEN <<Event("printed", file)>>
    ELSE <<>>

\* Where the loop goes after one file: the exception is swallowed.
LoopAfter(status, last) == IF last THEN "returned" ELSE "loop"

\* Lines 123-138.
filter_pmbb_by_icd10_loop ==
    /\ InUtils("filter_pmbb_by_icd10")
    /\ upc = "loop"
    /\ uidx <= Len(GlobFiles)
    /\ uevents' = uevents \o LoopEvents(GlobFiles[uidx], uidx)
    /\ uidx' = uidx + 1
    /\ upc' = LoopAfter(GlobFiles[uidx], uidx = Len(GlobFiles))
    /\ UNCHANGED <<matrix, dataset, dir, icd10_args, icd10_df, sampled_ids>>

\* Lines 141-152: the whole body is inside try; the except block prints.
filter_dataset_by_ids ==
    /\ InUtils("filter_dataset_by_ids")
    /\ upc = "read_matrix"
    /\ uevents' = uevents \o
          (IF dataset = "ok" THEN <<Event("write", "output_path")>>
           ELSE IF dataset = "no_id" THEN <<Event("no_id", "dataset_path")>>
           ELSE <<Event("printed", "dataset_path")>>)
    /\ upc' = "returned"
    /\ UNCHANGED <<matrix, dataset, dir, uidx, icd10_args, icd10_df, sampled_ids>>

UtilsNext ==
    \/ filter_pmbb_by_icd10_sample
    \/ filter_pmbb_by_icd10_loop
    \/ filter_dataset_by_ids

(***************************************************************************)
(* utils.py: build_graph and get_nodes_within_distance.                    *)
(***************************************************************************)
\* The node_index value of the i-th row of the nodes frame.
NodeIndex(i) == 10 * i

\* Line 34: a dict comprehension over enumerate; positions count from 0 and
\* a later row overwrites an earlier one of the same node_index.
node_mapping(node_index) ==
    [original_index \in Range(node_index) |->
        (CHOOSE i \in 1..Len(node_index) :
            /\ node_index[i] = original_index
            /\ \A j \in i + 1..Len(node_index) : node_index[j] # original_index) - 1]

\* Lines 36-40 and 44: both ends mapped; an edge with an end that is not a
\* node maps to NaN and is dropped.
edge_tuples(edges, mapping) ==
    LET kept == SelectSeq(edges, LAMBDA e : e[1] \in DOMAIN mapping /\ e[2] \in DOMAIN mapping)
    IN [i \in 1..Len(kept) |-> <<mapping[kept[i][1]], mapping[kept[i][2]]>>]

\* Lines 42-47: an undirected graph on the vertices 0 .. len(nodes) - 1.
BuildGraph(node_index, edges) ==
    [n |-> Len(node_index), edges |-> edge_tuples(edges, node_mapping(node_index))]

build_graph ==
    /\ InGraph
    /\ gpc = "build_graph"
    /\ ig_graph' = BuildGraph(graph_args.node_index, graph_args.edges)
    /\ gpc' = "get_nodes_within_distance"
    /\ UNCHANGED <<graph_args, nodes_to_keep>>

\* A distance igraph reports: a hop count, or inf for an unreachable vertex.
Finite(d) == [inf |-> FALSE, d |-> d]
Inf == [inf |-> TRUE, d |-> 0]

\* The vertices one edge away from v; an undirected edge counts both ways.
Neighbours(graph, v) ==
    {graph.edges[i][2] : i \in {k \in 1..Len(graph.edges) : graph.edges[k][1] = v}}
    \cup {graph.edges[i][1] : i \in {k \in 1..Len(graph.edges) : graph.edges[k][2] = v}}

\* Breadth-first search: the vertices first reached at this level get it
\* as their distance.
RECURSIVE Bfs(_, _, _, _)
Bfs(graph, frontier, level, dist) ==
    IF frontier = {} THEN dist
    ELSE LET reached == {v \in UNION {Neighbours(graph, u) : u \in frontier} : dist[v].inf}
         IN Bfs(graph, reached, level + 1,
                [v \in DOMAIN dist |-> IF v \in reached THEN Finite(level) ELSE dist[v]])

\* Line 52, g.shortest_paths(source=start_nodes, target=None): one row of
\* distances per start node.
shortest_paths(graph, source) ==
    [i \in 1..Len(source) |->
        Bfs(graph, {source[i]}, 1,
            [v \in 0..graph.n - 1 |-> IF v = source[i] THEN Finite(0) ELSE Inf])]

\* Mutant of WithinDistance: < instead of <=.
MutWithinStrict(d, max_distance) == ~d.inf /\ d.d < max_distance

\* Line 56: d <= max_distance and d != float('inf').
WithinDistance(d, max_distance) == (~d.inf /\ d.d <= max_distance) /\ ~d.inf

\* Lines 53-58.
NodesWithinDistance(graph, start_nodes, max_distance) ==
    LET distances == shortest_paths(graph, start_nodes)
    IN {idx \in 0..graph.n - 1 :
           \E i \in 1..Len(distances) : WithinDistance(distances[i][idx], max_distance)}

get_nodes_within_distance ==
    /\ InGraph
    /\ gpc = "get_nodes_within_distance"
    /\ nodes_to_keep' = NodesWithinDistance(ig_graph, graph_args.start_nodes, graph_args.max_distance)
    /\ gpc' = "returned"
    /\ UNCHANGED <<graph_args, ig_graph>>

GraphNext ==
    \/ build_graph
    \/ get_nodes_within_distance

\* The members of a finite set in some order.
RECURSIVE SeqOf(_)
SeqOf(S) ==
    IF S = {} THEN <<>>
    ELSE LET x == CHOOSE y \in S : TRUE IN <<x>> \o SeqOf(S \ {x})

\* The edge frames over n nodes: any set of node pairs, and possibly an
\* edge to a node_index that is not in the nodes frame.
EdgeFrames(n) ==
    {SeqOf(S) \o dangling :
        S \in SUBSET {<<NodeIndex(i), NodeIndex(j)>> : <<i, j>> \in {p \in (1..n) \X (1..n) : p[1] < p[2]}},
        dangling \in {<<>>, << <<NodeIndex(1), NodeIndex(n + 1)>> >>}}

\* The calls: a nodes frame of n rows, an edge frame, start vertices,
\* a distance.
GraphArgs ==
    UNION {[node_index : {[i \in 1..n |-> NodeIndex(i)]},
            edges : EdgeFrames(n),
            start_nodes : {SeqOf(S) : S \in SUBSET (0..n - 1)},
            max_distance : -1..n] : n \in 1..MaxVertices}

(***************************************************************************)
(* The repository: one process runs one entry point.                       *)
(***************************************************************************)
Programs ==
    {"nodeEmbedding.py", "filter.py", "filter_pmbb_by_icd10", "filter_dataset_by_ids",
     "get_nodes_within_distance"}

\* Sequences over S of length at most n without a repeated element.
DistinctSeqs(S, n) == {q \in SeqsUpTo(S, n) : \A i \in 1..Len(q) : \A j \in 1..Len(q) : q[i] = q[j] => i = j}

\* The graphs filter.py reads: read_gml admits no two nodes of one label.
FilterGraphs ==
    {[i \in 1..Len(names) |-> [name |-> names[i], type |-> ty[i]]] :
        <<names, ty>> \in {p \in DistinctSeqs(Range(CodeNames), MaxCodes) \X SeqsUpTo(TypeVals, MaxCodes) :
                              Len(p[1]) = Len(p[2])}}

\* The headers of the ICD-10 matrix: PMBB_ID, then the code columns.
FilterMatrices == {<<PMBB_ID>> \o q : q \in DistinctSeqs(Range(CodeNames), MaxCodes)}

\* The calls of filter_pmbb_by_icd10: a code, a prefix to exclude ('Q' is
\* the default), a sample size.
Icd10Args ==
    [icd10_code : {<<"E", "1">>, <<"Q", "1">>},
     num_patients : 0..MaxRows,
     exclude_prefix : {<<"Q">>, <<"E">>}]

\* The matrices filter_pmbb_by_icd10 reads: PMBB_ID and code columns; a row
\* is a patient id (possibly missing) and the cell it has in the code columns.
Icd10Frames ==
    [columns : {<<PMBB_ID, <<"E", "1">>, <<"Q", "1">> >>, <<PMBB_ID, <<"Q", "1">> >>},
     rows : SeqsUpTo([id : {Num(1), Num(2), NaN}, value : {CellSeq[i] : i \in 1..4}], MaxRows)]

\* A program's own input files are in any state; the files it does not
\* read are in order.
IOInit ==
    /\ fstatus \in (IF prog = "filter.py" THEN [Range(FilterLoads) -> FileStatus]
                    ELSE {[f \in Range(FilterLoads) |-> "ok"]})
    /\ fpc = "kg"
    /\ flog = <<>>
    /\ fout = {}
    /\ kg_nodes \in (IF prog = "filter.py" /\ fstatus["kg"] = "ok" THEN FilterGraphs ELSE {<<>>})
    /\ icd_columns \in (IF prog = "filter.py" /\ fstatus["icd_matrix"] = "ok"
                        THEN FilterMatrices ELSE {<<>>})
    /\ written_columns = <<>>
    /\ matrix \in (IF prog = "filter_pmbb_by_icd10" THEN FileStatus ELSE {"ok"})
    /\ dataset \in (IF prog = "filter_dataset_by_ids" THEN FileStatus \cup {"no_id"} ELSE {"ok"})
    /\ dir \in (IF prog = "filter_pmbb_by_icd10" THEN SeqsUpTo(ListedStatus, MaxFiles) ELSE {<<>>})
    /\ upc = "read_matrix"
    /\ uidx = 1
    /\ uevents = <<>>
    /\ icd10_args \in (IF prog = "filter_pmbb_by_icd10" /\ matrix = "ok" /\ dir = <<>>
                       THEN Icd10Args
                       ELSE {[icd10_code |-> <<"E", "1">>, num_patients |-> 1, exclude_prefix |-> <<"Q">>]})
    /\ icd10_df \in (IF prog = "filter_pmbb_by_icd10" /\ matrix = "ok" /\ dir = <<>>
                     THEN Icd10Frames
                     ELSE {[columns |-> <<PMBB_ID, <<"E", "1">> >>, rows |-> <<[id |-> Num(1), value |-> Num(1)]>>]})
    /\ sampled_ids = <<>>
    /\ graph_args \in (IF prog = "get_nodes_within_distance" THEN GraphArgs
                       ELSE {[node_index |-> <<>>, edges |-> <<>>, start_nodes |-> <<>>, max_distance |-> 0]})
    /\ ig_graph = [n |-> 0, edges |-> <<>>]
    /\ nodes_to_keep = {}
    /\ gpc = "build_graph"

\* The files a program does not read are in order.
IOIdle ==
    /\ prog # "filter.py" => fstatus = [f \in Range(FilterLoads) |-> "ok"]
    /\ prog # "filter_pmbb_by_icd10" => (matrix = "ok" /\ dir = <<>>)
    /\ prog # "filter_dataset_by_ids" => dataset = "ok"

vars == <<pvars, prog, fvars, uvars, gvars>>

Init ==
    /\ prog \in Programs
    /\ PipelineInit
    /\ IOInit
    /\ IOIdle

Next ==
    \/ PipelineNext
    \/ FilterNext
    \/ UtilsNext
    \/ GraphNext

Spec == Init /\ [][Next]_vars

(***************************************************************************)
(* What the claims speak about, read off the state directly.               *)
(***************************************************************************)
\* generate_features_and_labels has returned.
Generated == "features" \in attrs /\ "labels" \in attrs

\* P: the rows of the ICD matrix.
NumPatients == Len(filtered_icd_df)

\* The positions in the graph's node order that hold a gene/protein node.
GenePositions == {q \in 1..Len(kg.nodes) : kg.type[kg.nodes[q]] = GeneType}

\* G: the gene/protein nodes of the graph.
NumGenes == Cardinality(GenePositions)

\* The j-th gene/protein node in the graph's node order (j from 1).
GeneAt(j) ==
    kg.nodes[CHOOSE q \in GenePositions :
                Cardinality({r \in GenePositions : r < q}) = j - 1]

\* The variant matrix cell at row = patient id, column = gene.
CellOf(pid, gene) ==
    variant_df.cell[<<CHOOSE r \in 1..Len(variant_df.index) : variant_df.index[r] = pid,
                      gene>>]

CellNonZero(c) == c.nan \/ c.v > 0 \/ c.v < 0

\* The patient and the gene of the record at position k (k from 1), when
\* records are laid out patient by patient.
PatientOfRecord(k) == filtered_icd_df[((k - 1) \div NumGenes) + 1]
GeneOfRecord(k) == GeneAt(((k - 1) % NumGenes) + 1)

\* The row of the embedding table at the id of node n.
EmbeddingOf(n) == embeddings[node_to_id[n]]

\* C1: when generate_features_and_labels returns, it has emitted exactly
\* P x G features and P x G labels, and every (patient row, gene) pair has
\* its record among them: none skipped, sampled away or duplicated.
C1_RecordCount ==
    Generated =>
        /\ Len(features) = NumPatients * NumGenes
        /\ Len(labels) = NumPatients * NumGenes
        /\ \A i \in 1..NumPatients : \A j \in 1..NumGenes :
              \E k \in 1..Len(features) :
                  /\ features[k] = EmbeddingOf(filtered_icd_df[i]) \o EmbeddingOf(GeneAt(j))
                  /\ ((k - 1) \div NumGenes) + 1 = i

\* Two patients and two genes gave four records.
C1_Witness ==
    /\ Generated
    /\ NumPatients = 2
    /\ NumGenes = 2
    /\ Len(features) = 4

\* C2: the label of every emitted record is 1 if and only if the variant
\* matrix cell at (its patient, its gene) is non-zero, and 0 otherwise.
C2_LabelIffNonZero ==
    Generated =>
        \A k \in 1..Len(labels) :
            /\ labels[k] = 1 <=> CellNonZero(CellOf(PatientOfRecord(k), GeneOfRecord(k)))
            /\ labels[k] = 0 <=> ~CellNonZero(CellOf(PatientOfRecord(k), GeneOfRecord(k)))

\* Labels were derived from a zero cell, a positive cell and a negative cell.
C2_Witness ==
    /\ Generated
    /\ \E k \in 1..Len(labels) :
          CellOf(PatientOfRecord(k), GeneOfRecord(k)) = Num(0) /\ labels[k] = 0
    /\ \E k \in 1..Len(labels) :
          CellOf(PatientOfRecord(k), GeneOfRecord(k)) = Num(2) /\ labels[k] = 1
    /\ \E k \in 1..Len(labels) :
          CellOf(PatientOfRecord(k), GeneOfRecord(k)) = Num(-1) /\ labels[k] = 1

\* C3: every feature is the patient's embedding row followed by the gene's
\* embedding row, has length 2 x embedding dimension, and the label at the
\* same position belongs to the same pair.
C3_FeatureIsConcat ==
    Generated =>
        /\ Len(labels) = Len(features)
        /\ \A k \in 1..Len(features) :
              /\ Len(features[k]) = 2 * EmbDim
              /\ SubSeq(features[k], 1, EmbDim) = EmbeddingOf(PatientOfRecord(k))
              /\ SubSeq(features[k], EmbDim + 1, 2 * EmbDim) = EmbeddingOf(GeneOfRecord(k))
              /\ labels[k] = IF CellNonZero(CellOf(PatientOfRecord(k), GeneOfRecord(k)))
                             THEN 1 ELSE 0

\* A record whose patient and gene are different nodes was emitted.
C3_Witness ==
    /\ Generated
    /\ \E k \in 1..Len(features) :
          /\ PatientOfRecord(k) # GeneOfRecord(k)
          /\ features[k] = EmbeddingOf(PatientOfRecord(k)) \o EmbeddingOf(GeneOfRecord(k))

\* C4: every label is 0 or 1, whatever the variant cells hold.
C4_LabelsBinary ==
    \A k \in 1..Len(labels) : labels[k] \in {0, 1}

\* Labels were produced from a missing cell and from a negative cell.
C4_Witness ==
    /\ Generated
    /\ \E k \in 1..Len(labels) : CellOf(PatientOfRecord(k), GeneOfRecord(k)) = NaN
    /\ \E k \in 1..Len(labels) : CellOf(PatientOfRecord(k), GeneOfRecord(k)) = Num(-1)

\* C5: the record at position i*G + j (i, j from 0) belongs to the i-th
\* patient and the j-th gene in graph order; a 3-node graph with 1 patient
\* and 2 genes whose variant matrix marks only the first gene positive
\* yields exactly 2 records with labels [1, 0].
C5_RecordOrder ==
    Generated =>
        /\ \A i \in 0..NumPatients - 1 : \A j \in 0..NumGenes - 1 :
              /\ features[(i * NumGenes) + j + 1]
                    = EmbeddingOf(filtered_icd_df[i + 1]) \o EmbeddingOf(GeneAt(j + 1))
              /\ labels[(i * NumGenes) + j + 1]
                    = IF CellNonZero(CellOf(filtered_icd_df[i + 1], GeneAt(j + 1)))
                      THEN 1 ELSE 0
        /\ ( /\ Len(kg.nodes) = 3
             /\ NumPatients = 1
             /\ NumGenes = 2
             /\ CellOf(filtered_icd_df[1], GeneAt(1)) = Num(1)
             /\ CellOf(filtered_icd_df[1], GeneAt(2)) = Num(0) )
           => (Len(features) = 2 /\ labels = <<1, 0>>)

\* The end-to-end scenario ran: 3 nodes, the first a patient, then 2 genes.
C5_Witness ==
    /\ Generated
    /\ Len(kg.nodes) = 3
    /\ filtered_icd_df = <<kg.nodes[1]>>
    /\ GenePositions = {2, 3}
    /\ CellOf(filtered_icd_df[1], GeneAt(1)) = Num(1)
    /\ CellOf(filtered_icd_df[1], GeneAt(2)) = Num(0)
    /\ labels = <<1, 0>>

\* prepare_edge_index has returned.
EdgeIndexed == "edge_index_tensor" \in attrs

\* create_node_mapping has returned.
Mapped == "node_to_id" \in attrs /\ "id_to_node" \in attrs

\* The number of columns (a, b) of the edge index.
ColumnCount(a, b) ==
    Cardinality({k \in 1..Len(edge_index_tensor[1]) :
                    edge_index_tensor[1][k] = a /\ edge_index_tensor[2][k] = b})

\* The number of times the graph holds the edge (x, y).
EdgeCount(x, y) == Cardinality({k \in 1..Len(kg.edges) : kg.edges[k] = <<x, y>>})

\* C6: the edge index holds every edge of the loaded graph twice, once per
\* direction: 2*E columns for E edges, every column as often as its
\* reverse, and an edge present k times contributes k times (no dedup).
C6_EdgesBothWays ==
    EdgeIndexed =>
        /\ Len(edge_index_tensor[1]) = 2 * Len(kg.edges)
        /\ Len(edge_index_tensor[2]) = 2 * Len(kg.edges)
        /\ \A k \in 1..Len(edge_index_tensor[1]) :
              ColumnCount(edge_index_tensor[1][k], edge_index_tensor[2][k])
                = ColumnCount(edge_index_tensor[2][k], edge_index_tensor[1][k])
        /\ \A x \in Range(kg.nodes) : \A y \in Range(kg.nodes) :
              ColumnCount(node_to_id[x], node_to_id[y]) = EdgeCount(x, y) + EdgeCount(y, x)

\* A graph with a parallel edge between two distinct nodes was indexed.
C6_Witness ==
    /\ EdgeIndexed
    /\ \E x \in Range(kg.nodes) : \E y \in Range(kg.nodes) :
          /\ x # y
          /\ EdgeCount(x, y) = 2
          /\ ColumnCount(node_to_id[x], node_to_id[y]) = 2
          /\ ColumnCount(node_to_id[y], node_to_id[x]) = 2

\* C7: once the node mapping exists, both endpoints of every edge are keys
\* of it; every entry of the edge index is the id of an existing node, in
\* 0..N-1; and prepare_edge_index never fails on a lookup.
C7_ReferentialIntegrity ==
    /\ Mapped =>
          \A k \in 1..Len(kg.edges) :
              kg.edges[k][1] \in DOMAIN node_to_id /\ kg.edges[k][2] \in DOMAIN node_to_id
    /\ EdgeIndexed =>
          \A r \in 1..2 : \A k \in 1..Len(edge_index_tensor[r]) :
              /\ edge_index_tensor[r][k] \in 0..Len(kg.nodes) - 1
              /\ edge_index_tensor[r][k] \in DOMAIN id_to_node
              /\ id_to_node[edge_index_tensor[r][k]] \in Range(kg.nodes)
    /\ ~(pc = "failed" /\ ran[Len(ran)] = "prepare_edge_index")

\* An edge that touches the last node of the graph was indexed.
C7_Witness ==
    /\ EdgeIndexed
    /\ Len(kg.nodes) >= 2
    /\ \E k \in 1..Len(edge_index_tensor[1]) :
          /\ edge_index_tensor[1][k] = Len(kg.nodes) - 1
          /\ edge_index_tensor[2][k] = 0

\* C8: the node mapping gives the N nodes the ids 0..N-1, distinct nodes
\* distinct ids, and id_to_node is the inverse of node_to_id.
C8_DenseIds ==
    Mapped =>
        /\ DOMAIN node_to_id = Range(kg.nodes)
        /\ {node_to_id[n] : n \in DOMAIN node_to_id} = 0..Cardinality(Range(kg.nodes)) - 1
        /\ \A n1 \in DOMAIN node_to_id : \A n2 \in DOMAIN node_to_id :
              node_to_id[n1] = node_to_id[n2] => n1 = n2
        /\ DOMAIN id_to_node = 0..Cardinality(Range(kg.nodes)) - 1
        /\ \A n \in DOMAIN node_to_id : id_to_node[node_to_id[n]] = n
        /\ \A i \in DOMAIN id_to_node : node_to_id[id_to_node[i]] = i

\* A graph of three nodes was mapped.
C8_Witness ==
    /\ Mapped
    /\ Cardinality(Range(kg.nodes)) = 3
    /\ Cardinality(DOMAIN id_to_node) = 3

\* The attributes a stage reads.
StageReads(stage) ==
    CASE stage = "__init__" -> {}
      [] stage = "create_node_mapping" -> {"kg"}
      [] stage = "prepare_edge_index" -> {"kg", "node_to_id"}
      [] stage = "train_node_embeddings" -> {"edge_index_tensor"}
      [] stage = "generate_features_and_labels" ->
            {"filtered_icd_df", "kg", "node_to_id", "embeddings", "variant_df"}
      [] stage = "train_binary_classifier" -> {"features", "labels"}
      [] OTHER -> {}

\* C9: the stages run in the fixed order load, node mapping, edge index,
\* embedding training, feature/label generation, classifier training: the
\* stages entered so far are always an initial part of that order (so none
\* is entered twice or out of turn), the stage that runs next is the one
\* after them, and the artifacts it reads have been produced.
C9_StageOrder ==
    /\ Len(ran) <= Len(MainOrder)
    /\ \A k \in 1..Len(ran) : ran[k] = MainOrder[k]
    /\ pc \in Range(MainOrder) => (pc = MainOrder[Len(ran) + 1] /\ StageReads(pc) \subseteq attrs)
    /\ pc = "done" => ran = MainOrder
    /\ pc \in Range(MainOrder) \cup {"done", "failed"}

\* A run went through all six stages.
C9_Witness ==
    /\ pc = "done"
    /\ ran = MainOrder
    /\ "logistic_regression_model.pkl" \in files

\* filter.py: how many of its loads the script has got past.
FilterLoadsPassed ==
    IF fpc \in Range(FilterLoads) THEN Pos(FilterLoads, fpc) - 1
    ELSE IF fpc = "raised" THEN 0
    ELSE Len(FilterLoads)

\* filter.py: the first input, in load order, that cannot be loaded.
FilterFirstBad ==
    FilterLoads[CHOOSE i \in 1..Len(FilterLoads) :
                    /\ fstatus[FilterLoads[i]] # "ok"
                    /\ \A j \in 1..i - 1 : fstatus[FilterLoads[j]] = "ok"]

\* The reads that failed, among the events of a utils function.
FailedReads == {k \in 1..Len(uevents) : uevents[k].kind \in {"error", "printed"}}

\* A load that failed ended the run there and then: the files the program
\* got past were all loaded, a failed read is the last thing the function
\* did and it left through the exception, and a failed run wrote nothing.
\* C10 as stated: every failed load, in every loading operation, ends the
\* run; nothing continues past it and nothing is written after it.
C10_EveryLoadFailureEndsRun ==
    /\ \A i \in 1..FilterLoadsPassed : fstatus[FilterLoads[i]] = "ok"
    /\ fpc = "raised" => fout = {}
    /\ (pc = "failed" /\ ran = <<"__init__">>) => (files = {} /\ attrs = {})
    /\ \A k \in FailedReads : upc = "raised" /\ k = Len(uevents)

\* C10, amended: a failed load in filter.py (logged first in its three try
\* blocks, not for the graph), in the predictor's constructor, or of the
\* ICD-10 matrix at the top of filter_pmbb_by_icd10 ends the run with
\* nothing written after it; a failed read in filter_pmbb_by_icd10's loop
\* over the directory or in filter_dataset_by_ids is printed and swallowed:
\* the loop goes on, the later files are still written, and the function
\* returns normally.
C10_LoadFailureHandling ==
    /\ \A i \in 1..FilterLoadsPassed : fstatus[FilterLoads[i]] = "ok"
    /\ fpc = "raised" =>
          /\ fout = {}
          /\ \E f \in Range(FilterLoads) : fstatus[f] # "ok"
          /\ IF FilterFirstBad = "kg" THEN flog = <<>>
             ELSE flog[Len(flog)] = LogRecord("ERROR", FilterFirstBad)
    /\ \A k \in 1..Len(flog) : flog[k].level = "ERROR" => (fpc = "raised" /\ k = Len(flog))
    /\ (pc = "failed" /\ ran = <<"__init__">>) => (files = {} /\ attrs = {})
    /\ upc = "raised" =>
          (prog = "filter_pmbb_by_icd10" /\ matrix # "ok" /\ uevents = <<Event("error", "matrix")>>)
    /\ (prog = "filter_pmbb_by_icd10" /\ upc \in {"loop", "returned"}) =>
          /\ matrix = "ok"
          /\ uevents[1] = Event("write", "sampled_patient_ids.csv")
          /\ \A k \in 1..uidx - 1 :
                /\ GlobFiles[k] = "ok" => \E e \in 2..Len(uevents) : uevents[e] = Event("write", k)
                /\ GlobFiles[k] = "unreadable" =>
                      \E e \in 2..Len(uevents) : uevents[e] = Event("printed", k)
          /\ upc = "returned" <=> uidx = Len(GlobFiles) + 1
    /\ (prog = "filter_dataset_by_ids" /\ upc = "returned") =>
          uevents = <<Event(CASE dataset = "ok" -> "write"
                              [] dataset = "no_id" -> "no_id"
                              [] OTHER -> "printed",
                            IF dataset = "ok" THEN "output_path" ELSE "dataset_path")>>

\* filter_pmbb_by_icd10 returned after a read in its loop failed and a
\* later file was still written.
C10_Witness ==
    /\ prog = "filter_pmbb_by_icd10"
    /\ upc = "returned"
    /\ \E e1 \in 1..Len(uevents) : \E e2 \in 1..Len(uevents) :
          /\ e1 < e2
          /\ uevents[e1].kind = "printed"
          /\ uevents[e2].kind = "write"

\* The code columns of filter.py's graph: the disease nodes named letter-first.
KgCodes ==
    {kg_nodes[i].name : i \in {j \in 1..Len(kg_nodes) :
                                  kg_nodes[j].type = "disease" /\ isalpha(kg_nodes[j].name[1])}}

\* Two names are one code once the periods are removed from both.
SameCode(a, b) == RemovePeriods(a) = RemovePeriods(b)

\* The graph codes that are columns of the input matrix.
KgCodesInMatrix == {k \in KgCodes : \E i \in 2..Len(icd_columns) : SameCode(icd_columns[i], k)}

\* C11 as stated: once its four inputs are loaded, filter.py writes the
\* filtered matrix for every input; its header is PMBB_ID, then a column for
\* each graph ICD-10 code (disease node, letter first) that the input matrix
\* has once periods are removed from both sides, and no column for a code
\* that is not in the graph.
C11_FilteredColumns ==
    (prog = "filter.py" /\ fpc \in {"done", "failed"}) =>
        /\ fpc = "done"
        /\ "filtered_icd10_kg.csv" \in fout
        /\ written_columns # <<>>
        /\ written_columns[1] = PMBB_ID
        /\ \A k \in KgCodesInMatrix : \E i \in 2..Len(written_columns) : SameCode(written_columns[i], k)
        /\ \A i \in 2..Len(written_columns) : \E k \in KgCodes : SameCode(written_columns[i], k)

\* filter.py got past its loads with a graph code that contains a period
\* and is a column of the matrix.
C11_Witness ==
    /\ prog = "filter.py"
    /\ fpc \in {"done", "failed"}
    /\ \E k \in KgCodesInMatrix : RemovePeriods(k) # k

\* filter_pmbb_by_icd10 considers the code: it is a column of the matrix
\* and does not start with the excluded prefix.
CodeConsidered ==
    /\ \E i \in 1..Len(icd10_df.columns) : icd10_df.columns[i] = icd10_args.icd10_code
    /\ ~startswith(icd10_args.icd10_code, icd10_args.exclude_prefix)

\* The eligible patients: the ids of the rows with a value greater than 0
\* in the code's column. A missing value counts as 0, and a missing id is
\* read as the id 0, as the function's fillna(0) makes them.
Eligible ==
    IF CodeConsidered
    THEN {FillNa(icd10_df.rows[i].id) :
             i \in {j \in 1..Len(icd10_df.rows) :
                       ~icd10_df.rows[j].value.nan /\ icd10_df.rows[j].value.v > 0}}
    ELSE {}

Min(a, b) == IF a <= b THEN a ELSE b

\* filter_pmbb_by_icd10 has written its sample.
SampleWritten ==
    /\ prog = "filter_pmbb_by_icd10"
    /\ \E k \in 1..Len(uevents) : uevents[k] = Event("write", "sampled_patient_ids.csv")

RECURSIVE Ball(_, _)
Ball(S, k) ==
    IF k = 0 THEN S
    ELSE LET inner == Ball(S, k - 1)
         IN inner \cup {v \in 0..ig_graph.n - 1 : \E u \in inner :
                           \E i \in 1..Len(ig_graph.edges) : ig_graph.edges[i] \in {<<u, v>>, <<v, u>>}}

StartSet == Range(graph_args.start_nodes)

\* C13: get_nodes_within_distance returns exactly the vertices whose
\* shortest-path distance from some start node is at most max_distance:
\* every start node when max_distance >= 0, no vertex unreachable from all
\* start nodes, no vertex farther than max_distance from every start node.
C13_NodesWithinDistance ==
    (prog = "get_nodes_within_distance" /\ gpc = "returned") =>
        /\ nodes_to_keep =
              (IF graph_args.max_distance < 0 THEN {} ELSE Ball(StartSet, graph_args.max_distance))
        /\ graph_args.max_distance >= 0 => StartSet \subseteq nodes_to_keep
        /\ nodes_to_keep \subseteq Ball(StartSet, ig_graph.n)

\* get_nodes_within_distance returned, with max_distance 1, for a graph
\* that has a vertex two edges from the start node: it kept the start node
\* and its neighbours only.
C13_Witness ==
    /\ prog = "get_nodes_within_distance"
    /\ gpc = "returned"
    /\ graph_args.max_distance = 1
    /\ Cardinality(StartSet) = 1
    /\ Ball(StartSet, 1) # StartSet
    /\ Ball(StartSet, 2) # Ball(StartSet, 1)
    /\ nodes_to_keep = Ball(StartSet, 1)

\* main() has run generate_features_and_labels, to its return or its error.
GenerateRan == \E k \in 1..Len(ran) : ran[k] = "generate_features_and_labels"

\* Some patient id of the ICD matrix is not a key of the node-id mapping.
SomePatientUnmapped ==
    \E i \in 1..Len(filtered_icd_df) : filtered_icd_df[i] \notin DOMAIN node_to_id

\* Some patient id of the ICD matrix labels no row of the variant matrix.
SomePatientWithoutRow ==
    \E i \in 1..Len(filtered_icd_df) :
        \A r \in 1..Len(variant_df.index) : variant_df.index[r] # filtered_icd_df[i]

\* generate_features_and_labels failed and left nothing: the run ended
\* there, features and labels are not set, neither file is written, the
\* classifier stage was not entered.
GenerateFailedClean ==
    /\ pc = "failed"
    /\ ran[Len(ran)] = "generate_features_and_labels"
    /\ error # ""
    /\ "features" \notin attrs
    /\ "labels" \notin attrs
    /\ "features.npy" \notin files
    /\ "labels.npy" \notin files
    /\ \A k \in 1..Len(ran) : ran[k] # "train_binary_classifier"

\* C14 as stated: a patient id that is not a key of the node-id mapping, or
\* that has no row in the variant matrix, makes generate_features_and_labels
\* fail with nothing set, nothing written and the classifier not reached.
C14_BadPatientAlwaysFails ==
    (GenerateRan /\ (SomePatientUnmapped \/ SomePatientWithoutRow)) => GenerateFailedClean

\* C14, amended: a patient id that is not a key of the node-id mapping
\* always makes generate_features_and_labels fail clean; a patient id
\* without a row in the variant matrix does so when the graph has at least
\* one gene/protein node. With no gene/protein node the variant matrix is
\* never read: the function returns with empty features and labels, writes
\* both files, and main() goes on to the classifier stage.
C14_BadPatientHandling ==
    /\ (GenerateRan /\ SomePatientUnmapped) => GenerateFailedClean
    /\ (GenerateRan /\ SomePatientWithoutRow /\ NumGenes >= 1) => GenerateFailedClean
    /\ (GenerateRan /\ ~SomePatientUnmapped /\ NumGenes = 0) =>
          /\ Generated
          /\ features = <<>>
          /\ labels = <<>>
          /\ {"features.npy", "labels.npy"} \subseteq files
          /\ \/ pc = "train_binary_classifier"
             \/ ran[Len(ran)] = "train_binary_classifier"

\* Every patient is a node with an embedding and the graph has a gene, but
\* a patient has no row in the variant matrix: the stage failed on the
\* row lookup.
C14_Witness ==
    /\ GenerateRan
    /\ ~SomePatientUnmapped
    /\ SomePatientWithoutRow
    /\ NumGenes >= 1
    /\ error = "KeyError"
    /\ GenerateFailedClean

====
